---- MODULE Spec2Model ----
(***************************************************************************)
(* Four lint rules of deno_lint (no-duplicate-case, no-empty-interface,    *)
(* no-ex-assign, no-extra-semi) as visitors over a parsed program.         *)
(*                                                                         *)
(* A lint run is a state machine: lint_program creates the rule's visitor  *)
(* and starts it at the program root; every further step is one visitor    *)
(* callback (an overridden visit_* method of the rule, or swc's default    *)
(* walk of a node the rule does not override).  The recursion of the       *)
(* visitor is kept as an explicit stack of the nodes still to be visited,  *)
(* first to visit first.                                                   *)
(*                                                                         *)
(* An AST node is a record [kind, txt, kids]: kids are the node's children *)
(* in swc's field order (an absent optional child is a None node), txt is  *)
(* the lexeme of a literal or the Id of an identifier.  A span is modelled *)
(* by the path (child indices from the root) of the node it covers.        *)
(***************************************************************************)
EXTENDS Integers, Sequences, FiniteSets, TLC

VARIABLES
  program,      \* the parsed program (immutable during the run)
  badSpans,     \* spans the source map cannot resolve to a snippet
  rule,         \* the rule whose lint_program is running ("" before the run)
  stack,        \* spans of the nodes the visitor still has to visit
  diagnostics,  \* context.diagnostics
  pc            \* "ready" | "visiting" | "panicked"

vars == <<program, badSpans, rule, stack, diagnostics, pc>>

(***************************************************************************)
(* Bounds of the explored programs.                                        *)
(***************************************************************************)
MaxCases == 3
MaxExtends == 2
MaxMembers == 1
MaxPatElems == 2
MaxClassMembers == 2

(***************************************************************************)
(* AST construction.                                                       *)
(***************************************************************************)
Node(kind, kids) == [kind |-> kind, txt |-> "", kids |-> kids]
Leaf(kind, txt) == [kind |-> kind, txt |-> txt, kids |-> <<>>]

None == Leaf("None", "")
Empty == Leaf("EmptyStmt", ";")
Lit(t) == Leaf("Lit", t)
Ident(id) == Leaf("Ident", id)
Block(stmts) == Node("BlockStmt", stmts)
ExprStmt(e) == Node("ExprStmt", <<e>>)
FnExpr(stmts) == Node("FnExpr", stmts)
Assign(left, right) == Node("AssignExpr", <<left, right>>)
Program(stmts) == Node("Program", stmts)

SeqsUpTo(S, n) == UNION {[1..k -> S] : k \in 0..n}
SeqsFromTo(S, m, n) == UNION {[1..k -> S] : k \in m..n}

(***************************************************************************)
(* Identifiers.  An Id is swc's (symbol, syntax context) pair, written     *)
(* symbol#context; the scope analysis has bound e#1 and m#1 as catch       *)
(* clause parameters, e#0 as an outer `var e`, and x#0 is unresolved.      *)
(***************************************************************************)
Ids == {"e#1", "m#1", "e#0", "x#0"}

ScopeVar(id) ==
  CASE id = "e#1" -> "CatchClause"
    [] id = "m#1" -> "CatchClause"
    [] id = "e#0" -> "Var"
    [] OTHER -> "NoBinding"

(***************************************************************************)
(* Statement and expression forms.  Children are listed in the field order *)
(* of the swc AST structs, which is the order the default walk visits them *)
(* (DoWhileStmt is {test, body}).                                          *)
(***************************************************************************)
For(init, test, update, body) == Node("ForStmt", <<init, test, update, body>>)
While(test, body) == Node("WhileStmt", <<test, body>>)
DoWhile(test, body) == Node("DoWhileStmt", <<test, body>>)
With(obj, body) == Node("WithStmt", <<obj, body>>)
ForIn(left, right, body) == Node("ForInStmt", <<left, right, body>>)
ForOf(left, right, body) == Node("ForOfStmt", <<left, right, body>>)
If(test, cons, alt) == Node("IfStmt", <<test, cons, alt>>)
Labeled(body) == Node("LabeledStmt", <<Ident("foo"), body>>)
Case(test, cons) == Node("SwitchCase", <<test>> \o cons)
Switch(disc, cases) == Node("SwitchStmt", <<disc>> \o cases)
Class(members) == Node("ClassDecl", members)
Method(stmts) == Node("ClassMethod", stmts)
TsModule(stmts) == Node("TsModuleDecl", stmts)
ArrayPat(elems) == Node("ArrayPat", elems)
ObjectPat(props) == Node("ObjectPat", props)
AssignPat(left, dflt) == Node("AssignPat", <<left, dflt>>)
MemberExpr == Node("MemberExpr", <<Ident("x#0"), Ident("p")>>)
Interface(nparams, nextends, nmembers) ==
  Node("TsInterfaceDecl",
       [i \in 1..nparams |-> Leaf("TsTypeParam", "T")]
         \o [i \in 1..nextends |-> Leaf("TsExprWithTypeArgs", "Bar")]
         \o [i \in 1..nmembers |-> Leaf("TsTypeElement", "a: string")])

(***************************************************************************)
(* The explored programs: four families, each rich in the constructs one   *)
(* rule reacts to; every rule is run on every program.                     *)
(***************************************************************************)
\* no-extra-semi: body-bearing constructs, plain and nested.
NonBodyExprs == {Lit("0"), FnExpr(<<Empty>>)}
LeftPats == {Ident("x#0"), ArrayPat(<<AssignPat(Ident("x#0"), FnExpr(<<Empty>>))>>)}
Bodies0 == {Empty, Block(<<>>), Block(<<Empty>>)}

Constructs(tests, lefts, bodies) ==
       {While(t, b) : t \in tests, b \in bodies}
  \cup {DoWhile(t, b) : t \in tests, b \in bodies}
  \cup {With(t, b) : t \in tests, b \in bodies}
  \cup {ForIn(l, t, b) : l \in lefts, t \in tests, b \in bodies}
  \cup {ForOf(l, t, b) : l \in lefts, t \in tests, b \in bodies}
  \cup {Labeled(b) : b \in bodies}

Fors(inits, tests, bodies) ==
  {For(i, t, u, b) : i \in inits, t \in tests, u \in inits, b \in bodies}

Ifs(tests, conss, alts) ==
  {If(t, c, a) : t \in tests, c \in conss, a \in alts}

Stmts1 ==
       Constructs(NonBodyExprs, LeftPats, Bodies0)
  \cup Fors({None, FnExpr(<<Empty>>)}, {None, Lit("0")}, Bodies0)
  \cup Ifs(NonBodyExprs, Bodies0, {None} \cup Bodies0)

\* the constructs with an empty-statement body and nothing else of interest
Stmts1Skipped ==
       Constructs({Lit("0")}, {Ident("x#0")}, {Empty})
  \cup Fors({None}, {None}, {Empty})
  \cup Ifs({Lit("0")}, {Empty}, {None, Empty})

Bodies1 == Stmts1 \cup {Block(<<s, Empty>>) : s \in Stmts1Skipped}

Stmts2 ==
       Constructs({Lit("0")}, {Ident("x#0")}, Bodies1)
  \cup Fors({None}, {None}, Bodies1)
  \cup Ifs({Lit("0")}, Bodies1, {None})
  \cup Ifs({Lit("0")}, {Block(<<>>)}, Stmts1)

ClassMembers ==
  {Empty, Method(<<>>), Method(<<Empty>>), Method(<<Class(<<Empty>>)>>)}

SemiPrograms ==
       {Program(<<s>>) : s \in Stmts1 \cup Stmts2}
  \cup {Program(<<s, Empty>>) : s \in Stmts1 \cup Stmts2}
  \cup {Program(<<Class(ms)>>) : ms \in SeqsUpTo(ClassMembers, MaxClassMembers)}

\* no-duplicate-case: switches, flat, side by side, nested, inside a loop.
CaseTests == {None, Lit("a"), Lit("b")}

FlatSwitch(tests, cons) ==
  Switch(Ident("x#0"), [i \in 1..Len(tests) |-> Case(tests[i], cons)])

FlatSwitches(n) ==
  {FlatSwitch(ts, <<>>) : ts \in SeqsUpTo(CaseTests, n)}

InnerSwitches ==
  {FlatSwitch(ts, <<>>) : ts \in [1..2 -> {Lit("a"), Lit("b")}]}

\* an inner switch in the body of case i, in the test of case i, or in the
\* discriminant (i = 0) of an outer switch with the tests ts
NestedSwitch(ts, i, where, inner) ==
  Switch(IF i = 0 THEN FnExpr(<<inner>>) ELSE Ident("x#0"),
         [k \in 1..Len(ts) |->
            IF k # i THEN Case(ts[k], <<>>)
            ELSE IF where = "cons" THEN Case(ts[k], <<inner>>)
            ELSE Case(FnExpr(<<inner>>), <<>>)])

NestedSwitches ==
  {NestedSwitch(ts, i, w, inner) :
     ts \in SeqsFromTo(CaseTests, 1, MaxCases), i \in 0..MaxCases,
     w \in {"cons", "test"}, inner \in InnerSwitches}

SwitchPrograms ==
       {Program(<<s>>) : s \in FlatSwitches(MaxCases) \cup NestedSwitches}
  \cup {Program(<<FlatSwitch(ts, <<Empty>>)>>) : ts \in SeqsUpTo(CaseTests, MaxCases)}
  \cup {Program(<<s1, s2>>) : s1, s2 \in FlatSwitches(MaxCases - 1)}
  \cup {Program(<<While(Lit("0"), Block(<<s>>))>>) : s \in FlatSwitches(MaxCases)}

\* no-ex-assign: assignment expressions with plain and destructuring targets,
\* some holding a further assignment in the right-hand side or in a default.
AssignToCatch == Assign(Ident("e#1"), Lit("1"))
LeafPats == {Ident(id) : id \in Ids} \cup {MemberExpr}
DefaultExprs == {Lit("0"), AssignToCatch, FnExpr(<<ExprStmt(AssignToCatch)>>)}

LeftTargets ==
       LeafPats
  \cup {ArrayPat(ps) : ps \in SeqsUpTo(LeafPats, MaxPatElems)}
  \cup {ObjectPat(<<AssignPat(Ident(id), d)>>) : id \in Ids, d \in DefaultExprs}

RightExprs ==
       {Lit("1"), FnExpr(<<ExprStmt(AssignToCatch)>>)}
  \cup {Assign(Ident(id), Lit("1")) : id \in Ids}

AssignPrograms ==
  {Program(<<ExprStmt(Assign(l, r))>>) : l \in LeftTargets, r \in RightExprs}

\* no-empty-interface: interface declarations, at top level and in a module.
Interfaces ==
  {Interface(p, x, m) : p \in 0..1, x \in 0..MaxExtends, m \in 0..MaxMembers}

InterfacePrograms ==
       {Program(is) : is \in SeqsFromTo(Interfaces, 1, 2)}
  \cup {Program(<<TsModule(<<i>>)>>) : i \in Interfaces}

Programs ==
  SemiPrograms \cup SwitchPrograms \cup AssignPrograms \cup InterfacePrograms

(***************************************************************************)
(* Spans and the context's collaborators.                                  *)
(***************************************************************************)
RECURSIVE NodeAt(_, _)
NodeAt(node, span) ==
  IF span = <<>> THEN node ELSE NodeAt(node.kids[Head(span)], Tail(span))

RECURSIVE SpansUnder(_, _)
SpansUnder(node, span) ==
  {span} \cup UNION {SpansUnder(node.kids[i], span \o <<i>>) : i \in 1..Len(node.kids)}

AllSpans == SpansUnder(program, <<>>)
KindAt(span) == NodeAt(program, span).kind

\* the spans of the children of the node at span, absent children left out
PresentKids(span) ==
  LET kids == NodeAt(program, span).kids
      RECURSIVE From(_)
      From(i) ==
        IF i > Len(kids) THEN <<>>
        ELSE IF kids[i].kind = "None" THEN From(i + 1)
        ELSE <<span \o <<i>>>> \o From(i + 1)
  IN From(1)

\* context.source_map.span_to_snippet(span): the source text the span covers,
\* or Err.  The text of a span is identified with the syntax it parses to,
\* lexemes included.
SpanToSnippet(span) ==
  IF span \in badSpans
    THEN [ok |-> FALSE, txt |-> None]
    ELSE [ok |-> TRUE, txt |-> NodeAt(program, span)]

\* swc_util::find_lhs_ids: the identifiers an assignment target writes, in
\* target order, one entry per occurrence.
RECURSIVE FindLhsIds(_)
FindLhsIds(pat) ==
  LET RECURSIVE Each(_)
      Each(i) ==
        IF i > Len(pat.kids) THEN <<>>
        ELSE FindLhsIds(pat.kids[i]) \o Each(i + 1)
  IN CASE pat.kind = "Ident" -> <<pat.txt>>
       [] pat.kind \in {"ArrayPat", "ObjectPat"} -> Each(1)
       [] pat.kind = "AssignPat" -> FindLhsIds(pat.kids[1])
       [] OTHER -> <<>>

\* Context::add_diagnostic_with_hint: append one record.  (Message strings
\* are written without the back quotes of the source.)
AddDiagnosticWithHint(diags, span, code, message, hint) ==
  Append(diags, [span |-> span, code |-> code, message |-> message, hint |-> hint])

(***************************************************************************)
(* The rules.                                                              *)
(***************************************************************************)
\* the constants of no_ex_assign.rs
CODE == "no-ex-assign"
MESSAGE == "Reassigning exception parameter is not allowed"
HINT == "Use a different variable for the assignment"

Rules == {"NoDuplicateCase", "NoEmptyInterface", "NoExAssign", "NoExtraSemi"}

\* LintRule::code of each rule
Code(r) ==
  CASE r = "NoDuplicateCase" -> "no-duplicate-case"
    [] r = "NoEmptyInterface" -> "no-empty-interface"
    [] r = "NoExAssign" -> CODE
    [] r = "NoExtraSemi" -> "no-extra-semi"

\* the node kinds whose visit method the rule's visitor overrides
Overridden(r) ==
  CASE r = "NoDuplicateCase" -> {"SwitchStmt"}
    [] r = "NoEmptyInterface" -> {"TsInterfaceDecl"}
    [] r = "NoExAssign" -> {"AssignExpr"}
    [] r = "NoExtraSemi" ->
         {"EmptyStmt", "ForStmt", "WhileStmt", "DoWhileStmt", "WithStmt",
          "ForOfStmt", "ForInStmt", "IfStmt", "LabeledStmt"}
    [] OTHER -> {}

\* noop_visit_type!(): the visitor does not enter type-only nodes
TsTypeKinds ==
  {"TsInterfaceDecl", "TsTypeParam", "TsExprWithTypeArgs", "TsTypeElement"}
NoopVisitType(r) == r \in {"NoDuplicateCase", "NoExAssign", "NoExtraSemi"}

Visiting(r, kind) ==
  /\ pc = "visiting"
  /\ rule = r
  /\ stack # <<>>
  /\ KindAt(Head(stack)) = kind

Done == pc = "visiting" /\ stack = <<>>

\* the callback at the top of the stack returns after visiting these children
Return(children) ==
  /\ stack' = children \o Tail(stack)
  /\ UNCHANGED <<program, badSpans, rule, pc>>

(***************************************************************************)
(* lint_program: create the visitor and visit the program.                 *)
(***************************************************************************)
LintProgram(r) ==
  /\ pc = "ready"
  /\ rule' = r
  /\ stack' = <<<<>>>>
  /\ pc' = "visiting"
  /\ UNCHANGED <<program, badSpans, diagnostics>>

(***************************************************************************)
(* swc's default walk of a node the rule does not override: visit every    *)
(* child in field order.                                                   *)
(***************************************************************************)
DefaultKids(r, span) ==
  IF NoopVisitType(r) /\ KindAt(span) \in TsTypeKinds THEN <<>>
  ELSE PresentKids(span)

VisitDefault ==
  /\ pc = "visiting"
  /\ stack # <<>>
  /\ KindAt(Head(stack)) \notin Overridden(rule)
  /\ Return(DefaultKids(rule, Head(stack)))
  /\ UNCHANGED diagnostics

(***************************************************************************)
(* no-duplicate-case                                                       *)
(***************************************************************************)
DuplicateCaseDiagnostic(diags, span) ==
  AddDiagnosticWithHint(diags, span, "no-duplicate-case",
    "Duplicate values in case are not allowed",
    "Remove or rename the duplicate case clause")

\* ScanCases comparing the kind of the test expressions, not their text
RECURSIVE ScanCasesByKind(_, _, _, _)
ScanCasesByKind(sw, i, seen, diags) ==
  LET cases == Tail(NodeAt(program, sw).kids)
      span == sw \o <<i + 1, 1>>
      snippet == SpanToSnippet(span)
  IN IF i > Len(cases) THEN [diags |-> diags, panicked |-> FALSE]
     ELSE IF cases[i].kids[1].kind = "None" THEN ScanCasesByKind(sw, i + 1, seen, diags)
     ELSE IF ~snippet.ok THEN [diags |-> diags, panicked |-> TRUE]
     ELSE IF snippet.txt.kind \in seen
       THEN ScanCasesByKind(sw, i + 1, seen, DuplicateCaseDiagnostic(diags, span))
       ELSE ScanCasesByKind(sw, i + 1, seen \cup {snippet.txt.kind}, diags)

\* the loop over switch_stmt.cases from case i on; unwrap() of an Err panics
RECURSIVE ScanCases(_, _, _, _)
ScanCases(sw, i, seen, diags) ==
  LET cases == Tail(NodeAt(program, sw).kids)
      span == sw \o <<i + 1, 1>>
      snippet == SpanToSnippet(span)
  IN IF i > Len(cases) THEN [diags |-> diags, panicked |-> FALSE]
     ELSE IF cases[i].kids[1].kind = "None" THEN ScanCases(sw, i + 1, seen, diags)
     ELSE IF ~snippet.ok THEN [diags |-> diags, panicked |-> TRUE]
     ELSE IF snippet.txt \in seen
       THEN ScanCases(sw, i + 1, seen, DuplicateCaseDiagnostic(diags, span))
       ELSE ScanCases(sw, i + 1, seen \cup {snippet.txt}, diags)

VisitSwitchStmt ==
  /\ Visiting("NoDuplicateCase", "SwitchStmt")
  /\ LET result == ScanCases(Head(stack), 1, {}, diagnostics)
     IN /\ diagnostics' = result.diags
        /\ IF result.panicked
             THEN pc' = "panicked" /\ UNCHANGED stack
             ELSE pc' = pc /\ stack' = Tail(stack)
  /\ UNCHANGED <<program, badSpans, rule>>

(***************************************************************************)
(* no-empty-interface                                                      *)
(***************************************************************************)
CountKind(node, kind) == Cardinality({i \in 1..Len(node.kids) : node.kids[i].kind = kind})
ExtendsLen(decl) == CountKind(decl, "TsExprWithTypeArgs")
BodyLen(decl) == CountKind(decl, "TsTypeElement")

\* InterfaceFires exempting every interface that extends a supertype
InterfaceFiresWithoutSupertype(decl) == ExtendsLen(decl) < 1 /\ BodyLen(decl) = 0

InterfaceFires(decl) == ExtendsLen(decl) <= 1 /\ BodyLen(decl) = 0

InterfaceMessage(decl) ==
  IF ExtendsLen(decl) = 0
    THEN "An empty interface is equivalent to {}."
    ELSE "An interface declaring no members is equivalent to its supertype."

InterfaceHint(decl) ==
  IF ExtendsLen(decl) = 0
    THEN "Remove this interface or add members to this interface."
    ELSE "Use the supertype instead, or add members to this interface."

VisitTsInterfaceDecl ==
  /\ Visiting("NoEmptyInterface", "TsInterfaceDecl")
  /\ LET span == Head(stack)
         decl == NodeAt(program, span)
     IN diagnostics' =
          IF InterfaceFires(decl)
            THEN AddDiagnosticWithHint(diagnostics, span, "no-empty-interface",
                   InterfaceMessage(decl), InterfaceHint(decl))
            ELSE diagnostics
  /\ Return(<<>>)

(***************************************************************************)
(* no-ex-assign                                                            *)
(***************************************************************************)
\* BindsCatchClause accepting any resolved binding
BindsAnything(id) == ScopeVar(id) # "NoBinding"

BindsCatchClause(id) == ScopeVar(id) = "CatchClause"

\* the loop `for id in ids` from the i-th id on
RECURSIVE ReportIds(_, _, _, _)
ReportIds(ids, i, span, diags) ==
  IF i > Len(ids) THEN diags
  ELSE IF BindsCatchClause(ids[i])
    THEN ReportIds(ids, i + 1, span, AddDiagnosticWithHint(diags, span, CODE, MESSAGE, HINT))
    ELSE ReportIds(ids, i + 1, span, diags)

VisitAssignExpr ==
  /\ Visiting("NoExAssign", "AssignExpr")
  /\ LET span == Head(stack)
         ids == FindLhsIds(NodeAt(program, span).kids[1])
     IN diagnostics' = ReportIds(ids, 1, span, diagnostics)
  /\ Return(<<>>)
(***************************************************************************)
(* no-extra-semi                                                           *)
(***************************************************************************)
\* the spans of the children idxs of the node at span that are present
Walk(span, idxs) ==
  LET kids == NodeAt(program, span).kids
      RECURSIVE From(_)
      From(k) ==
        IF k > Len(idxs) THEN <<>>
        ELSE IF kids[idxs[k]].kind = "None" THEN From(k + 1)
        ELSE <<span \o <<idxs[k]>>>> \o From(k + 1)
  IN From(1)

\* matches!(&*stmt.body, Stmt::Empty(_)) for the child idx
IsEmptyStmt(span, idx) == NodeAt(program, span).kids[idx].kind = "EmptyStmt"

\* EmptyStmtDiagnostic with a code that is not the rule's code()
EmptyStmtDiagnosticOtherCode(diags, span) ==
  AddDiagnosticWithHint(diags, span, "no-extra-semicolon",
    "Unnecessary semicolon.",
    "Remove the extra (and unnecessary) semi-colon")

EmptyStmtDiagnostic(diags, span) ==
  AddDiagnosticWithHint(diags, span, "no-extra-semi",
    "Unnecessary semicolon.",
    "Remove the extra (and unnecessary) semi-colon")

VisitEmptyStmt ==
  /\ Visiting("NoExtraSemi", "EmptyStmt")
  /\ diagnostics' = EmptyStmtDiagnostic(diagnostics, Head(stack))
  /\ Return(<<>>)

ForStmtVisits(span) ==
  IF IsEmptyStmt(span, 4) THEN Walk(span, <<1, 2, 3>>) ELSE PresentKids(span)

VisitForStmt ==
  /\ Visiting("NoExtraSemi", "ForStmt")
  /\ Return(ForStmtVisits(Head(stack)))
  /\ UNCHANGED diagnostics

\* WhileStmtVisits returning at once when the body is empty
WhileStmtVisitsNothing(span) ==
  IF IsEmptyStmt(span, 2) THEN <<>> ELSE PresentKids(span)

WhileStmtVisits(span) ==
  IF IsEmptyStmt(span, 2) THEN Walk(span, <<1>>) ELSE PresentKids(span)

VisitWhileStmt ==
  /\ Visiting("NoExtraSemi", "WhileStmt")
  /\ Return(WhileStmtVisits(Head(stack)))
  /\ UNCHANGED diagnostics

DoWhileStmtVisits(span) ==
  IF IsEmptyStmt(span, 2) THEN Walk(span, <<1>>) ELSE PresentKids(span)

VisitDoWhileStmt ==
  /\ Visiting("NoExtraSemi", "DoWhileStmt")
  /\ Return(DoWhileStmtVisits(Head(stack)))
  /\ UNCHANGED diagnostics

WithStmtVisits(span) ==
  IF IsEmptyStmt(span, 2) THEN Walk(span, <<1>>) ELSE PresentKids(span)

VisitWithStmt ==
  /\ Visiting("NoExtraSemi", "WithStmt")
  /\ Return(WithStmtVisits(Head(stack)))
  /\ UNCHANGED diagnostics

ForOfStmtVisits(span) ==
  IF IsEmptyStmt(span, 3) THEN Walk(span, <<1, 2>>) ELSE PresentKids(span)

VisitForOfStmt ==
  /\ Visiting("NoExtraSemi", "ForOfStmt")
  /\ Return(ForOfStmtVisits(Head(stack)))
  /\ UNCHANGED diagnostics

ForInStmtVisits(span) ==
  IF IsEmptyStmt(span, 3) THEN Walk(span, <<1, 2>>) ELSE PresentKids(span)

VisitForInStmt ==
  /\ Visiting("NoExtraSemi", "ForInStmt")
  /\ Return(ForInStmtVisits(Head(stack)))
  /\ UNCHANGED diagnostics

\* IfStmtVisits walking the alternate before the consequent
IfStmtVisitsAltFirst(span) ==
     Walk(span, <<1>>)
  \o (IF IsEmptyStmt(span, 3) THEN <<>> ELSE Walk(span, <<3>>))
  \o (IF IsEmptyStmt(span, 2) THEN <<>> ELSE Walk(span, <<2>>))

IfStmtVisits(span) ==
     Walk(span, <<1>>)
  \o (IF IsEmptyStmt(span, 2) THEN <<>> ELSE Walk(span, <<2>>))
  \o (IF IsEmptyStmt(span, 3) THEN <<>> ELSE Walk(span, <<3>>))

VisitIfStmt ==
  /\ Visiting("NoExtraSemi", "IfStmt")
  /\ Return(IfStmtVisits(Head(stack)))
  /\ UNCHANGED diagnostics

LabeledStmtVisits(span) ==
     Walk(span, <<1>>)
  \o (IF IsEmptyStmt(span, 2) THEN <<>> ELSE Walk(span, <<2>>))

VisitLabeledStmt ==
  /\ Visiting("NoExtraSemi", "LabeledStmt")
  /\ Return(LabeledStmtVisits(Head(stack)))
  /\ UNCHANGED diagnostics

(***************************************************************************)
(* The lint run.                                                           *)
(***************************************************************************)
\* a fresh context for a parsed program; the parser's spans all resolve
Init ==
  /\ program \in Programs
  /\ badSpans = {}
  /\ rule = ""
  /\ stack = <<>>
  /\ diagnostics = <<>>
  /\ pc = "ready"

Next ==
  \/ \E r \in Rules : LintProgram(r)
  \/ VisitDefault
  \/ VisitSwitchStmt
  \/ VisitTsInterfaceDecl
  \/ VisitAssignExpr
  \/ VisitEmptyStmt
  \/ VisitForStmt
  \/ VisitWhileStmt
  \/ VisitDoWhileStmt
  \/ VisitWithStmt
  \/ VisitForOfStmt
  \/ VisitForInStmt
  \/ VisitIfStmt
  \/ VisitLabeledStmt

Spec == Init /\ [][Next]_vars

\* the same run over a source map that fails to resolve one case test span
CaseTestSpans(prog) ==
  {s \in SpansUnder(prog, <<>>) :
     /\ Len(s) >= 2
     /\ s[Len(s)] = 1
     /\ NodeAt(prog, SubSeq(s, 1, Len(s) - 1)).kind = "SwitchCase"
     /\ NodeAt(prog, s).kind # "None"}

InitSrcErr ==
  /\ program \in Programs
  /\ badSpans \in {{}} \cup {{s} : s \in CaseTestSpans(program)}
  /\ rule = ""
  /\ stack = <<>>
  /\ diagnostics = <<>>
  /\ pc = "ready"

SpecSrcErr == InitSrcErr /\ [][Next]_vars
(***************************************************************************)
(* Vocabulary of the properties.                                           *)
(***************************************************************************)
DiagSpans == [i \in 1..Len(diagnostics) |-> diagnostics[i].span]
CountAt(span) == Cardinality({i \in 1..Len(diagnostics) : diagnostics[i].span = span})

IsPrefix(s, t) == Len(s) <= Len(t) /\ SubSeq(t, 1, Len(s)) = s
\* what a step appended to the diagnostics
Appended == SubSeq(diagnostics', Len(diagnostics) + 1, Len(diagnostics'))
Range(f) == {f[i] : i \in DOMAIN f}

Parent(span) == SubSeq(span, 1, Len(span) - 1)
Last(span) == span[Len(span)]

\* the cases of the switch at sw: case i is child i + 1, its test is child 1
NumCases(sw) == Len(NodeAt(program, sw).kids) - 1
TestSpan(sw, i) == sw \o <<i + 1, 1>>
HasTest(sw, i) == KindAt(TestSpan(sw, i)) # "None"
IsDuplicateCase(sw, i) ==
  /\ HasTest(sw, i)
  /\ \E j \in 1..(i - 1) :
       /\ HasTest(sw, j)
       /\ NodeAt(program, TestSpan(sw, j)) = NodeAt(program, TestSpan(sw, i))
DuplicateTests(sw) == {TestSpan(sw, i) : i \in {k \in 1..NumCases(sw) : IsDuplicateCase(sw, k)}}

\* C1: visiting a switch appends exactly one no-duplicate-case diagnostic for
\* every case whose test repeats the snippet of an earlier test of the same
\* switch, at that test's span, and nothing for first occurrences, defaults
\* or the cases of other switches.
C1_DuplicateCasePerSwitch ==
  [][Visiting("NoDuplicateCase", "SwitchStmt") =>
       /\ IsPrefix(diagnostics, diagnostics')
       /\ {d.span : d \in Range(Appended)} = DuplicateTests(Head(stack))
       /\ Len(Appended) = Cardinality(DuplicateTests(Head(stack)))
       /\ \A d \in Range(Appended) : d.code = "no-duplicate-case"]_vars

\* the test program of no_duplicate_case.rs: case a, case b, case a
C1_Witness ==
  /\ Done
  /\ rule = "NoDuplicateCase"
  /\ program = Program(<<FlatSwitch(<<Lit("a"), Lit("b"), Lit("a")>>, <<>>)>>)
  /\ DiagSpans = <<<<1, 4, 1>>>>

\* C2: when the no-duplicate-case run is over, every switch of the program,
\* nested ones included, has its duplicate case tests reported.
C2_EverySwitchExamined ==
  (Done /\ rule = "NoDuplicateCase") =>
    \A sw \in AllSpans :
      KindAt(sw) = "SwitchStmt" =>
        \A t \in DuplicateTests(sw) : CountAt(t) = 1

\* C3: no-ex-assign reports an assignment expression at most once.
C3_OneDiagnosticPerAssignment ==
  rule = "NoExAssign" => \A s \in AllSpans : CountAt(s) <= 1

\* C4: visiting an assignment reports it, at its own span, if and only if
\* some identifier its target writes is bound as a catch clause parameter.
C4_ReportsIffCatchBound ==
  [][Visiting("NoExAssign", "AssignExpr") =>
       LET span == Head(stack)
           ids == Range(FindLhsIds(NodeAt(program, span).kids[1]))
       IN /\ IsPrefix(diagnostics, diagnostics')
          /\ (Appended # <<>>) <=> (\E id \in ids : ScopeVar(id) = "CatchClause")
          /\ \A d \in Range(Appended) : d.span = span /\ d.code = "no-ex-assign"]_vars

\* `[e, e] = 1` with the first e the outer variable and the second the catch
\* parameter: reported once
C4_Witness ==
  /\ Done
  /\ rule = "NoExAssign"
  /\ program = Program(<<ExprStmt(Assign(ArrayPat(<<Ident("e#0"), Ident("e#1")>>), Lit("1")))>>)
  /\ DiagSpans = <<<<1, 1>>>>

\* C5: when the no-empty-interface run is over, an interface declaration
\* without members and with at most one supertype has exactly one diagnostic,
\* at its span, with the message and hint of its supertype count; any other
\* declaration has none; nothing else is reported.
C5_EmptyInterface ==
  (Done /\ rule = "NoEmptyInterface") =>
    /\ \A s \in AllSpans :
         KindAt(s) = "TsInterfaceDecl" =>
           LET decl == NodeAt(program, s)
               here == {i \in 1..Len(diagnostics) : diagnostics[i].span = s}
           IN IF BodyLen(decl) = 0 /\ ExtendsLen(decl) \in {0, 1}
                THEN /\ Cardinality(here) = 1
                     /\ \A i \in here :
                          /\ diagnostics[i].code = "no-empty-interface"
                          /\ ExtendsLen(decl) = 0 =>
                               /\ diagnostics[i].message = "An empty interface is equivalent to {}."
                               /\ diagnostics[i].hint = "Remove this interface or add members to this interface."
                          /\ ExtendsLen(decl) = 1 =>
                               /\ diagnostics[i].message = "An interface declaring no members is equivalent to its supertype."
                               /\ diagnostics[i].hint = "Use the supertype instead, or add members to this interface."
                ELSE here = {}
    /\ \A i \in 1..Len(diagnostics) : KindAt(diagnostics[i].span) = "TsInterfaceDecl"

\* `interface Foo<T> extends Bar<T> {}` followed by `interface Foo extends A, B {}`
C5_Witness ==
  /\ Done
  /\ rule = "NoEmptyInterface"
  /\ program = Program(<<Interface(1, 1, 0), Interface(0, 2, 0)>>)
  /\ DiagSpans = <<<<1>>>>

\* the empty statement at span is the direct body of a loop, with or label,
\* or the direct consequent or alternate of an if
IsBodyPosition(span) ==
  /\ span # <<>>
  /\ LET parent == KindAt(Parent(span))
         idx == Last(span)
     IN \/ parent = "ForStmt" /\ idx = 4
        \/ parent \in {"WhileStmt", "DoWhileStmt", "WithStmt", "LabeledStmt"} /\ idx = 2
        \/ parent \in {"ForInStmt", "ForOfStmt"} /\ idx = 3
        \/ parent = "IfStmt" /\ idx \in {2, 3}

\* C6: when the no-extra-semi run is over, every empty statement of the
\* program is reported exactly once at its span unless it is the direct body
\* of a body-bearing construct, in which case it is not reported; nothing
\* else is reported.
C6_StraySemicolon ==
  (Done /\ rule = "NoExtraSemi") =>
    /\ \A s \in AllSpans :
         KindAt(s) = "EmptyStmt" =>
           CountAt(s) = (IF IsBodyPosition(s) THEN 0 ELSE 1)
    /\ \A i \in 1..Len(diagnostics) : KindAt(diagnostics[i].span) = "EmptyStmt"

\* `while (function(){;}); ;`: the body is skipped, the semicolon inside the
\* test and the one after the loop are reported
C6_Witness ==
  /\ Done
  /\ rule = "NoExtraSemi"
  /\ program = Program(<<While(FnExpr(<<Empty>>), Empty), Empty>>)
  /\ DiagSpans = <<<<1, 1, 1>>, <<2>>>>

\* C7: a case test whose span does not resolve to a snippet is not reported
\* and does not make the run fail.
C7_UnresolvedSpanDoesNotFire ==
  /\ pc # "panicked"
  /\ \A i \in 1..Len(diagnostics) : diagnostics[i].span \notin badSpans

\* C8: every diagnostic carries the code() of the running rule, one of the
\* four rule codes.
C8_DiagnosticCode ==
  \A i \in 1..Len(diagnostics) :
    /\ diagnostics[i].code = Code(rule)
    /\ diagnostics[i].code \in
         {"no-duplicate-case", "no-empty-interface", "no-ex-assign", "no-extra-semi"}

C8_Witness ==
  /\ Done
  /\ rule = "NoExtraSemi"
  /\ Len(diagnostics) >= 2

\* C9: when the no-ex-assign run is over, every assignment expression of the
\* program that writes a catch clause parameter is reported, at any depth.
C9_EveryAssignmentExamined ==
  (Done /\ rule = "NoExAssign") =>
    \A s \in AllSpans :
      (/\ KindAt(s) = "AssignExpr"
       /\ \E id \in Range(FindLhsIds(NodeAt(program, s).kids[1])) :
            ScopeVar(id) = "CatchClause")
        => CountAt(s) >= 1

\* a before b in the order of the traversal: pre-order, children in field order
RECURSIVE Precedes(_, _)
Precedes(a, b) ==
  IF a = <<>> THEN TRUE
  ELSE IF b = <<>> THEN FALSE
  ELSE IF Head(a) # Head(b) THEN Head(a) < Head(b)
  ELSE Precedes(Tail(a), Tail(b))

InTraversalOrder(diags) ==
  \A i, j \in 1..Len(diags) : i < j => Precedes(diags[i].span, diags[j].span)

\* C10: a step only appends to the diagnostics, and the diagnostics are in
\* the order of the traversal (for an if: test, then consequent, then
\* alternate; for a switch: case order).
C10_DiagnosticOrder ==
  [][IsPrefix(diagnostics, diagnostics') /\ InTraversalOrder(diagnostics')]_vars

\* `if (function(){;}) {;} else {;}`
C10_Witness ==
  /\ Done
  /\ rule = "NoExtraSemi"
  /\ program = Program(<<If(FnExpr(<<Empty>>), Block(<<Empty>>), Block(<<Empty>>))>>)
  /\ DiagSpans = <<<<1, 1, 1>>, <<1, 2, 1>>, <<1, 3, 1>>>>

====
